---- MODULE Spec2Model ----
(***************************************************************************)
(* GDBDecompile.py: a gdb extension registering the command                *)
(* `decompile <function>`.  Strings are sequences of one-character         *)
(* strings, so that str.split, os.path.basename, os.path.splitext and the  *)
(* glob pattern match are computed as the library computes them.           *)
(***************************************************************************)
EXTENDS Integers, Sequences, FiniteSets, TLC

VARIABLES
    phase,       \* "start" before Decompile = GDBDecompile() (line 153), "ready" after
    configOk,    \* whether toml.load of ~/GDBDecompile/config.toml returned a dict
    loaded,      \* GDBDecompile.loaded
    options,     \* GDBDecompile.options: the set of keys of the dict
    decompiled,  \* GDBDecompile.decompiled
    cacheDir,    \* whether the directory options["decomp_path"] exists
    cache,       \* the files below the cache directory
    runs,        \* how many times ghidrecomp has been started
    last         \* what the latest `decompile` command did (observation record)

vars == <<phase, configOk, loaded, options, decompiled, cacheDir, cache, runs, last>>

----------------------------------------------------------------------------
(* Bounds and input alphabets *)

MaxArgLen == 3

Chars == {"a", " ", "*"}

RECURSIVE StringsUpTo(_)
StringsUpTo(n) ==
    IF n = 0 THEN {<<>>}
    ELSE LET shorter == StringsUpTo(n - 1)
         IN shorter \cup {Append(s, c) : s \in {t \in shorter : Len(t) = n - 1}, c \in Chars}

Args == StringsUpTo(MaxArgLen)

None == <<>>
Some(x) == <<x>>

\* Files ghidrecomp may write for a binary, and the binaries gdb may have loaded.
FileNames == {<<"a", ".", "c">>, <<"a", "a", ".", "c">>}
TargetPaths == {<<"/", "x">>, <<"/", "d", "/", "y">>}

\* First line(s) gdb prints for `info target` with an exec file loaded.
InfoTarget(p) == <<"S", "\"">> \o p \o <<"\"", ".", "\n", "L">>
\* ... and for a target without an exec file (no quoted path in the first line).
InfoRemote == <<"R", "\n", "D">>

\* How the host debugger behaves during one executeCapture call:
\*   setup - one of the commands of lines 43-48 raises
\*   body  - the captured command or the tear-down of lines 50-54 raises
\*   off56 - `set logging enabled off` of line 56 raises
\*   out   - what the captured command writes to the logging file
HostOk(out) == [setup |-> FALSE, body |-> FALSE, off56 |-> FALSE, out |-> out]
HostSetupRaises == [setup |-> TRUE, body |-> FALSE, off56 |-> FALSE, out |-> <<>>]
HostBodyRaises == [setup |-> FALSE, body |-> TRUE, off56 |-> FALSE, out |-> <<>>]
HostBodyAndOffRaise == [setup |-> FALSE, body |-> TRUE, off56 |-> TRUE, out |-> <<>>]
NoTargetHost == HostOk(<<>>)
Hosts ==
    {HostSetupRaises, HostBodyRaises, HostBodyAndOffRaise, NoTargetHost, HostOk(InfoRemote)}
        \cup {HostOk(InfoTarget(p)) : p \in TargetPaths}

CfgFiles == {"missing", "undecodable", "unreadable", "empty", "decomp_only", "full"}

----------------------------------------------------------------------------
(* Library functions, as the code uses them *)

\* str.split(sep) for a one-character separator
RECURSIVE split(_, _)
split(s, sep) ==
    IF \A i \in 1..Len(s) : s[i] # sep THEN <<s>>
    ELSE LET i == CHOOSE k \in 1..Len(s) : s[k] = sep /\ \A j \in 1..(k - 1) : s[j] # sep
         IN <<SubSeq(s, 1, i - 1)>> \o split(SubSeq(s, i + 1, Len(s)), sep)

\* os.path.basename: what follows the last "/"
basename(p) == LET parts == split(p, "/") IN parts[Len(parts)]

\* os.path.splitext(name)[0]: cut at the last dot unless only dots precede it
splitextRoot(n) ==
    LET dots == {i \in 1..Len(n) : n[i] = "."}
    IN IF dots = {} THEN n
       ELSE LET d == CHOOSE i \in dots : \A j \in dots : j <= i
            IN IF \E j \in 1..(d - 1) : n[j] # "." THEN SubSeq(n, 1, d - 1) ELSE n

\* fnmatch of one path component against a pattern in which "*" is the wildcard
RECURSIVE fnmatch(_, _)
fnmatch(s, p) ==
    IF p = <<>> THEN s = <<>>
    ELSE IF Head(p) = "*"
         THEN fnmatch(s, Tail(p)) \/ (s # <<>> /\ fnmatch(Tail(s), p))
         ELSE s # <<>> /\ Head(s) = Head(p) /\ fnmatch(Tail(s), Tail(p))

\* pygments.highlight(code, CLexer(), Terminal256Formatter(...))
highlight(code) == <<"highlight", code>>

----------------------------------------------------------------------------
(* Messages printed through GDBDecompile.display *)

MsgNotLoaded == "ERROR: Extension improperly loaded. Exiting."
MsgInvalid == "ERROR: Invalid command"
MsgUsage == "Usage: decompile FUNCTION"
MsgNoTarget == "ERROR: No target is loaded"
MsgHostError == "ERROR: host command failed"
MsgDecompiling == "Decompiling..."
MsgDone == "Done!"
MsgNoMatch == "ERROR: No match for function"
MsgMultiple == "ERROR: Multiple similar or duplicate functions found"
MsgSpecify == "Specify with decompile CANDIDATES"

----------------------------------------------------------------------------
(* GDBDecompile._loadConfig and __init__ *)

\* whether open() and toml.load() of the file return without raising
loadConfigOk(file) == file \in {"empty", "decomp_only", "full"}

\* the keys of the dict _loadConfig returns
loadConfigKeys(file) ==
    CASE file = "full" -> {"decomp_path", "ghidra_path"}
      [] file = "decomp_only" -> {"decomp_path"}
      [] OTHER -> {}

\* the value self.loaded has when _loadConfig returns (line 108)
loadConfigLoaded(file) == TRUE

----------------------------------------------------------------------------
(* GDBDecompile.executeCapture: [output, raised, tmp, msgs] *)

executeCapture(h) ==
    IF h.setup
    THEN [output |-> None, raised |-> "gdb.error", tmp |-> "left", msgs |-> {}]
    ELSE IF h.body
         THEN IF h.off56
              THEN [output |-> None, raised |-> "gdb.error", tmp |-> "left", msgs |-> {}]
              ELSE [output |-> None, raised |-> "none", tmp |-> "removed",
                    msgs |-> {MsgHostError}]
         ELSE [output |-> Some(h.out), raised |-> "none", tmp |-> "removed", msgs |-> {}]

(* GDBDecompile._getTarget: [target, raised, tmp, msgs] *)

getTargetNoEmptyCheck(h) ==
    LET cap == executeCapture(h)
        parts == split(split(cap.output[1], "\n")[1], "\"")
    IN  IF cap.raised # "none"
        THEN [target |-> None, raised |-> cap.raised, tmp |-> cap.tmp, msgs |-> cap.msgs]
        ELSE IF cap.output = None
        THEN [target |-> None, raised |-> "AttributeError", tmp |-> cap.tmp, msgs |-> cap.msgs]
        ELSE IF Len(parts) < 2
        THEN [target |-> None, raised |-> "IndexError", tmp |-> cap.tmp, msgs |-> cap.msgs]
        ELSE [target |-> Some(parts[2]), raised |-> "none", tmp |-> cap.tmp, msgs |-> cap.msgs]

_getTarget(h) ==
    LET cap == executeCapture(h)
        parts == split(split(cap.output[1], "\n")[1], "\"")
    IN  IF cap.raised # "none"
        THEN [target |-> None, raised |-> cap.raised, tmp |-> cap.tmp, msgs |-> cap.msgs]
        ELSE IF cap.output = Some(<<>>)
        THEN [target |-> None, raised |-> "none", tmp |-> cap.tmp, msgs |-> cap.msgs]
        ELSE IF cap.output = None
        THEN [target |-> None, raised |-> "AttributeError", tmp |-> cap.tmp, msgs |-> cap.msgs]
        ELSE IF Len(parts) < 2
        THEN [target |-> None, raised |-> "IndexError", tmp |-> cap.tmp, msgs |-> cap.msgs]
        ELSE [target |-> Some(parts[2]), raised |-> "none", tmp |-> cap.tmp, msgs |-> cap.msgs]

----------------------------------------------------------------------------
(* GDBDecompile.decompile *)

\* a file below the cache directory: <cache>/<dir>/<name>, holding src
File(origin, dir, name) == [dir |-> dir, name |-> name, src |-> <<origin, dir, name>>]

\* what one run of `ghidrecomp -o path target` leaves in the (just emptied) cache
ghidrecomp(target, names) == {File("ghidrecomp", basename(target), n) : n \in names}

\* glob.glob(os.path.join(path, os.path.basename(target), function) + "*")
glob(files, dir, function) ==
    {f \in files : f.dir = dir /\ fnmatch(f.name, function \o <<"*">>)}

\* lines 88-90: open(functions[0]).read() of the single match
readSourcePath(functions) ==
    LET f == CHOOSE g \in functions : TRUE IN <<"path", f.dir, f.name>>
readSource(functions) == (CHOOSE f \in functions : TRUE).src

\* line 70: `if not self.decompiled`
alwaysDecompile == TRUE
needsDecompile == ~decompiled

\* lines 79-90: [result, msgs, listed]
lookup(files, dir, function) ==
    LET functions == glob(files, dir, function)
    IN  IF functions = {}
        THEN [result |-> None, msgs |-> {MsgNoMatch}, listed |-> {}]
        ELSE IF Cardinality(functions) > 1
        THEN [result |-> None, msgs |-> {MsgMultiple, MsgSpecify},
              listed |-> {splitextRoot(f.name) : f \in functions}]
        ELSE [result |-> Some(readSource(functions)), msgs |-> {}, listed |-> {}]

\* The whole of decompile(function) under host behaviour h, with `names` the files
\* ghidrecomp writes if it is started.  Returns the outcome and the new state.
decompile(function, h, names) ==
    LET t == _getTarget(h)
        raise(e, dirExists, files, didClear) ==
            [result |-> None, raised |-> e, msgs |-> t.msgs, listed |-> {}, tmp |-> t.tmp,
             target |-> t.target, globbed |-> FALSE, ran |-> FALSE, cleared |-> didClear,
             decompiled |-> decompiled, cacheDir |-> dirExists, cache |-> files,
             runs |-> runs]
    IN  IF t.raised # "none" THEN raise(t.raised, cacheDir, cache, FALSE)
        ELSE IF t.target = None
        THEN [raise("none", cacheDir, cache, FALSE) EXCEPT !.msgs = t.msgs \cup {MsgNoTarget}]
        ELSE IF "decomp_path" \notin options
        THEN raise("KeyError", cacheDir, cache, FALSE)
        ELSE IF needsDecompile /\ "ghidra_path" \notin options
        THEN raise("KeyError", TRUE, {}, TRUE)
        ELSE
            LET run == needsDecompile
                files == IF run THEN ghidrecomp(t.target[1], names) ELSE cache
                found == lookup(files, basename(t.target[1]), function)
            IN  [result |-> found.result, raised |-> "none",
                 msgs |-> t.msgs \cup found.msgs
                          \cup (IF run THEN {MsgDecompiling, MsgDone} ELSE {}),
                 listed |-> found.listed, tmp |-> t.tmp, target |-> t.target,
                 globbed |-> TRUE, ran |-> run, cleared |-> run,
                 decompiled |-> (decompiled \/ run),
                 cacheDir |-> (cacheDir \/ run), cache |-> files,
                 runs |-> IF run THEN runs + 1 ELSE runs]

----------------------------------------------------------------------------
(* GDBDecompileCommand.invoke *)

\* line 136: `len(args) > 1 or args[0] == ""`
emptyArgOnly(args) == args[1] = <<>>
invalidArgs(args) == Len(args) > 1 \/ args[1] = <<>>

\* lines 141-143: what is printed for the value decompile returned
printCode(code) == IF code # None THEN Some(highlight(code[1])) ELSE None

NoInvocation ==
    [done |-> FALSE, arg |-> <<>>, host |-> NoTargetHost, called |-> FALSE,
     function |-> <<>>, target |-> None, globbed |-> FALSE, msgs |-> {}, listed |-> {},
     result |-> None, printed |-> None, raised |-> "none", ran |-> FALSE,
     cleared |-> FALSE, tmp |-> "none"]

\* invoke(arg): the observation record and the new state
invoke(arg, h, names) ==
    LET args == split(arg, " ")
        early(ms) ==
            [obs |-> [NoInvocation EXCEPT !.done = TRUE, !.arg = arg, !.host = h,
                                          !.msgs = ms],
             decompiled |-> decompiled, cacheDir |-> cacheDir, cache |-> cache,
             runs |-> runs]
    IN  IF ~loaded THEN early({MsgNotLoaded})
        ELSE IF invalidArgs(args) THEN early({MsgInvalid, MsgUsage})
        ELSE
            LET d == decompile(args[1], h, names)
            IN  [obs |-> [done |-> TRUE, arg |-> arg, host |-> h, called |-> TRUE,
                          function |-> args[1], target |-> d.target,
                          globbed |-> d.globbed, msgs |-> d.msgs, listed |-> d.listed,
                          result |-> d.result,
                          printed |-> IF d.raised = "none" THEN printCode(d.result)
                                      ELSE None,
                          raised |-> d.raised, ran |-> d.ran, cleared |-> d.cleared,
                          tmp |-> d.tmp],
                 decompiled |-> d.decompiled, cacheDir |-> d.cacheDir,
                 cache |-> d.cache, runs |-> d.runs]

----------------------------------------------------------------------------
(* The state machine *)

StaleFile == File("stale", <<"x">>, <<"a", ".", "c">>)

Init ==
    /\ phase = "start"
    /\ configOk = FALSE
    /\ loaded = FALSE
    /\ options = {}
    /\ decompiled = FALSE
    /\ cacheDir \in BOOLEAN
    /\ cache = (IF cacheDir THEN {StaleFile} ELSE {})
    /\ runs = 0
    /\ last = NoInvocation

\* Decompile = GDBDecompile(): __init__ with _loadConfig (lines 15-18, 92-109)
Startup(file) ==
    /\ phase = "start"
    /\ phase' = "ready"
    /\ configOk' = loadConfigOk(file)
    /\ loaded' = loadConfigLoaded(file)
    /\ options' = loadConfigKeys(file)
    /\ decompiled' = FALSE
    /\ UNCHANGED <<cacheDir, cache, runs, last>>

\* the user runs `decompile arg` while the host behaves as h
\* (names: the files ghidrecomp writes, should this invocation start it)
Invoke(arg, h, names) ==
    /\ phase = "ready"
    /\ \E r \in {invoke(arg, h, names)} :
           /\ last' = r.obs
           /\ decompiled' = r.decompiled
           /\ cacheDir' = r.cacheDir
           /\ cache' = r.cache
           /\ runs' = r.runs
    /\ UNCHANGED <<phase, configOk, loaded, options>>

\* ghidrecomp's output is an input only in states where line 76 can be reached
Outputs ==
    IF needsDecompile /\ {"decomp_path", "ghidra_path"} \subseteq options
    THEN SUBSET FileNames ELSE {{}}

\* the host's behaviour is an input only of invocations that reach line 140
HostsRead(arg) ==
    IF loaded /\ ~invalidArgs(split(arg, " ")) THEN Hosts ELSE {NoTargetHost}

Next ==
    \/ \E file \in CfgFiles : Startup(file)
    \/ \E arg \in Args : \E h \in HostsRead(arg), names \in Outputs : Invoke(arg, h, names)

Spec == Init /\ [][Next]_vars

----------------------------------------------------------------------------
(* Properties *)

\* what the claims call the case of the latest invocation
TargetOf(h) == {p \in TargetPaths : h = HostOk(InfoTarget(p))}
HasSpace(arg) == \E i \in 1..Len(arg) : arg[i] = " "
IsPrefix(p, s) == Len(p) <= Len(s) /\ SubSeq(s, 1, Len(p)) = p
StateKept ==
    /\ cache' = cache /\ cacheDir' = cacheDir
    /\ decompiled' = decompiled /\ runs' = runs

\* C1: over any session the decompiler is started exactly once, by the first
\* invocation that passes the load, usage and target checks, and never again.
C1_DecompilerOnce ==
    /\ runs <= 1
    /\ (last.done /\ last.called /\ last.target # None) => runs = 1

\* C2: an argument string with no non-empty token or with more than one token
\* (split on single spaces) gets the usage error and nothing else happens:
\* decompile is not called, ghidrecomp is not started, cache and flag are unchanged.
C2_UsageError ==
    [][(last'.done /\ (last'.arg = <<>> \/ HasSpace(last'.arg)))
         => /\ last'.msgs = {MsgInvalid, MsgUsage}
            /\ ~last'.called /\ ~last'.ran /\ ~last'.cleared
            /\ last'.result = None /\ last'.printed = None
            /\ StateKept]_vars

C2_Witness ==
    /\ last.done /\ last.arg = <<"a", " ", "a">>
    /\ last.msgs = {MsgInvalid, MsgUsage}
    /\ decompiled /\ cache # {}

\* C3: with no target loaded (`info target` prints nothing), decompile reports
\* "no target", returns nothing, does not start ghidrecomp and leaves the cache
\* directory and the decompiled flag as they were, so that the next invocation
\* with a target loaded performs the first decompilation.
C3_NoTarget ==
    /\ [][(last'.done /\ last'.called /\ last'.host = NoTargetHost)
         => /\ MsgNoTarget \in last'.msgs
            /\ last'.result = None /\ last'.printed = None /\ last'.raised = "none"
            /\ ~last'.ran /\ ~last'.cleared
            /\ StateKept]_vars
    /\ [][(/\ last'.done /\ last'.called /\ TargetOf(last'.host) # {}
           /\ last.host = NoTargetHost /\ last.called
           /\ ~decompiled /\ options = {"decomp_path", "ghidra_path"})
         => (last'.ran /\ decompiled' /\ runs' = runs + 1)]_vars

C3_Witness ==
    /\ last.done /\ last.called /\ last.host = NoTargetHost
    /\ MsgNoTarget \in last.msgs
    /\ ~decompiled /\ cacheDir /\ cache # {}
    /\ options = {"decomp_path", "ghidra_path"}

\* C4: if the configuration did not load, the loaded flag is false and every
\* invocation fails with the load error without reaching decompile.
C4_LoadError ==
    (phase = "ready" /\ ~configOk)
        => /\ ~loaded
           /\ last.done => (last.msgs = {MsgNotLoaded} /\ ~last.called)

\* C5: no invocation lets an exception propagate to the host debugger.
C5_NoException == last.done => last.raised = "none"

\* C6: when the function name matches exactly one file of the target's cache
\* subdirectory, decompile returns that file's contents and the handler prints them
\* highlighted; whenever decompile returns nothing the handler prints no source.
C6_SingleMatch ==
    /\ \A p \in TargetOf(last.host) :
          LET found == glob(cache, basename(p), last.function)
          IN  (last.done /\ last.called /\ "decomp_path" \in options
                    /\ Cardinality(found) = 1)
                => \A f \in found :
                      /\ last.result = Some(f.src)
                      /\ last.printed = Some(highlight(f.src))
    /\ (last.done /\ last.result = None) => last.printed = None

C6_Witness ==
    /\ last.done /\ last.function = <<"a">> /\ last.target = Some(<<"/", "d", "/", "y">>)
    /\ cache = {File("ghidrecomp", <<"y">>, <<"a", "a", ".", "c">>)}
    /\ last.result = Some(<<"ghidrecomp", <<"y">>, <<"a", "a", ".", "c">>>>)
    /\ last.printed # None

\* C7: when the number of cached files whose name starts with the function name is
\* not one, decompile returns nothing: "no match" for none, and for several an
\* error listing exactly the matching candidates (base name without extension).
C7_NotOneMatch ==
    (last.done /\ last.globbed)
        => LET starts == {f \in cache : /\ f.dir = basename(last.target[1])
                                        /\ IsPrefix(last.function, f.name)}
           IN  Cardinality(starts) # 1
                 => /\ last.result = None
                    /\ starts = {} => MsgNoMatch \in last.msgs
                    /\ starts # {} => /\ MsgMultiple \in last.msgs
                                      /\ last.listed = {splitextRoot(f.name) : f \in starts}

\* C8: every executeCapture call has removed its temporary file when control
\* leaves it, on every path.
C8_TmpRemoved == last.done => last.tmp # "left"

\* C9: session state is monotone: the decompiled flag never goes back to false,
\* the configuration is not modified after startup, and the cache directory is
\* emptied only by an invocation that finds the flag false.
C9_Monotone ==
    [][/\ decompiled => decompiled'
       /\ phase = "ready" => (options' = options /\ loaded' = loaded)
       /\ (last'.done /\ last'.cleared) => ~decompiled
       /\ decompiled => (cacheDir' /\ cache \subseteq cache')]_vars

C9_Witness ==
    /\ decompiled /\ cache # {}
    /\ last.done /\ last.globbed /\ ~last.ran /\ ~last.cleared
    /\ last.result # None

\* C10: every candidate name listed after "Specify with", given as the argument of
\* a further decompile in the same session, matches exactly one cached file and
\* returns that candidate's contents.
C10_Actionable ==
    (last.done /\ last.listed # {})
        => \A c \in last.listed :
              LET again == lookup(cache, basename(last.target[1]), c)
              IN  \E f \in cache : /\ f.dir = basename(last.target[1])
                                   /\ splitextRoot(f.name) = c
                                   /\ again.result = Some(f.src)

====
